---- MODULE Spec2Model ----
(***************************************************************************)
(* A model of the canteens water-resources simulator: the asset-backed     *)
(* outlets and the reservoir allocation of src/reservoir.py, the asset     *)
(* value test and the depreciation of src/asset.py, the node graph of      *)
(* src/node.py, the logging decorator of src/data.py and the driver of     *)
(* src/system.py.                                                          *)
(*                                                                         *)
(* Volumes, locations, capacities and asset values are integers (a fixed   *)
(* unit of volume or value); the code works in floats.  Names are          *)
(* sequences of character codes, so that names compare as Python strings   *)
(* compare.                                                                *)
(***************************************************************************)
EXTENDS Integers, Sequences, FiniteSets, TLC

VARIABLES
    \* ---- a Reservoir and its last operate call (src/reservoir.py) ----
    resOutlets,     \* Reservoir.outlets: the formatted outlets
    resCapacity,    \* Reservoir.capacity
    resHeaders,     \* Reservoir.output_headers
    opVolume,       \* argument of the last Reservoir.operate call, -1 before it
    opOutput,       \* tuple returned by the last Reservoir.operate call
    opTrace,        \* history: <<index into resOutlets, release>> per evaluation
    \* ---- an OutletAsset and the last call made on it ----
    oaOutlet,       \* the outlet the caller holds
    ucCalled,       \* the last call was an update_condition call
    ucInput,        \* [outlet, asset_value, volume] of that call
    ucResult,       \* [raised, outlet, input] of that call
    oaCall,         \* record of the last release_range or assess_condition call
    \* ---- an Asset and its last depreciate call (src/asset.py) ----
    dpAsset,        \* the Asset
    dpCall,         \* record of the last depreciate call
    \* ---- the node graph and the System (src/node.py, src/system.py) ----
    data,           \* Inflow.data per inflow node
    startPos,       \* starting_position each Inflow was constructed with
    timestep,       \* Inflow.__timestep per inflow node
    volume,         \* Storage.volume per storage node
    reservoir,      \* Storage.reservoir per storage node: [capacity, outlets]
    senders,        \* senders set per receiver node
    sysBuilt,       \* a System has been constructed
    sysNodes,       \* System.nodes
    last,           \* record of the last operation on the graph
    logs,           \* the default Log object of each decorated method
    registry,       \* REGISTRY: the Log registered under each node name
    hist,           \* history of the steps taken: counts and sums
    setOrder        \* order in which this run iterates the senders sets

resVars == <<resOutlets, resCapacity, resHeaders, opVolume, opOutput, opTrace>>
oaVars == <<oaOutlet, ucCalled, ucInput, ucResult, oaCall>>
assetVars == <<dpAsset, dpCall>>
nodeVars == <<data, startPos, timestep, volume, reservoir, senders,
              sysBuilt, sysNodes, last, logs, registry, hist, setOrder>>
vars == <<resOutlets, resCapacity, resHeaders, opVolume, opOutput, opTrace,
          oaOutlet, ucCalled, ucInput, ucResult, oaCall,
          dpAsset, dpCall,
          data, startPos, timestep, volume, reservoir, senders,
          sysBuilt, sysNodes, last, logs, registry, hist, setOrder>>

(***************************************************************************)
(* Bounds of the model.                                                    *)
(***************************************************************************)
MaxOutlets == 2       \* outlets handed to a Reservoir
MaxLocation == 1      \* outlet locations are 0..MaxLocation
MaxCapacity == 1      \* reservoir capacities are 0..MaxCapacity
MaxVolume == 4        \* volumes handed to operate / update_condition
MaxAssetValue == 3    \* asset values are -1..MaxAssetValue
MaxStart == 2         \* Inflow starting positions are -1..MaxStart
MaxTimestep == 4      \* no receive or step once a cursor is above MaxTimestep
MaxEdges == 3         \* sender edges built by add_sender
MaxFormatOutlets == 3 \* outlets handed to a Reservoir in SpecFormat
MaxPeriods == 3       \* Asset.periods_in_schedule is 1..MaxPeriods
MaxMaintenance == 2   \* Asset.maintenance_requirement is 1..MaxMaintenance
MaxAcceleration == 2  \* Asset.acceleration_factor is 1..MaxAcceleration
MaxSends == 2         \* direct Inflow.send calls in SpecInflow
MaxSteps == 3         \* step_forward calls that return

(***************************************************************************)
(* Python helpers.                                                         *)
(***************************************************************************)
Min(a, b) == IF a <= b THEN a ELSE b
Max(a, b) == IF a >= b THEN a ELSE b

RECURSIVE SumSeq(_)
\* sum(...) over a tuple
SumSeq(s) == IF s = <<>> THEN 0 ELSE Head(s) + SumSeq(Tail(s))

\* np.inf, the default design_range.max: above every volume of the model
Inf == 1000

\* character codes: '@', '0', '1'
AtChar == 64
ZeroChar == 48
OneChar == 49
\* 'outlet', the base name of an unnamed outlet
OutletStr == <<111, 117, 116, 108, 101, 116>>
\* OutputTag.SPILLED.value, OutputTag.STORAGE.value
SpilledStr == <<115, 112, 105, 108, 108, 101, 100>>
StorageStr == <<115, 116, 111, 114, 97, 103, 101>>

RECURSIVE IntToStr(_)
\* str(i) for i >= 0
IntToStr(i) ==
    IF i < 10 THEN <<ZeroChar + i>>
    ELSE IntToStr(i \div 10) \o <<ZeroChar + (i % 10)>>

RECURSIVE StrLess(_, _)
\* a < b on Python strings
StrLess(a, b) ==
    IF b = <<>> THEN FALSE
    ELSE IF a = <<>> THEN TRUE
    ELSE IF Head(a) # Head(b) THEN Head(a) < Head(b)
    ELSE StrLess(Tail(a), Tail(b))

\* name.index('@'), as a 1-based position (every formatted name holds '@')
AtIndex(name) ==
    CHOOSE i \in 1..Len(name) :
        name[i] = AtChar /\ \A j \in 1..(i - 1) : name[j] # AtChar

(***************************************************************************)
(* Outlets (src/reservoir.py).                                             *)
(***************************************************************************)
FailureState == {"NONE", "OPEN", "CLOSED"}

\* the asset field of a BasicOutlet, which has none
NoAsset == [initial_value |-> 0, salvage_value |-> 0]

BasicOutlet(name, location, design_range) ==
    [kind |-> "BasicOutlet", asset |-> NoAsset, name |-> name,
     location |-> location, failure_state |-> "NONE",
     design_range |-> design_range]

OutletAsset(asset, name, location, failure_state, design_range) ==
    [kind |-> "OutletAsset", asset |-> asset, name |-> name,
     location |-> location, failure_state |-> failure_state,
     design_range |-> design_range]

ReleaseRange(mn, mx) == [min |-> mn, max |-> mx]

\* basic_gate with the maximum release not capped by the volume over the
\* outlet
basic_gate_DesignMax(outlet, vol) ==
    LET volume_over == vol - outlet.location
    IN  IF volume_over < 0 THEN ReleaseRange(0, 0)
        ELSE ReleaseRange(Min(outlet.design_range.min, volume_over),
                          outlet.design_range.max)

basic_gate(outlet, vol) ==
    LET volume_over == vol - outlet.location
    IN  IF volume_over < 0 THEN ReleaseRange(0, 0)
        ELSE ReleaseRange(Min(outlet.design_range.min, volume_over),
                          Min(volume_over, outlet.design_range.max))

\* basic_gate_with_failure with an outlet failed open still under control
basic_gate_with_failure_OpenControlled(outlet, vol) ==
    LET no_failure_release == basic_gate(outlet, vol)
    IN  CASE outlet.failure_state = "NONE" -> no_failure_release
          [] outlet.failure_state = "OPEN" -> no_failure_release
          [] outlet.failure_state = "CLOSED" -> ReleaseRange(0, 0)

basic_gate_with_failure(outlet, vol) ==
    LET no_failure_release == basic_gate(outlet, vol)
    IN  CASE outlet.failure_state = "NONE" -> no_failure_release
          [] outlet.failure_state = "OPEN" ->
                ReleaseRange(no_failure_release.max, no_failure_release.max)
          [] outlet.failure_state = "CLOSED" -> ReleaseRange(0, 0)

\* Outlet.release_range: dispatch on the outlet's _release_function
release_range(outlet, vol) ==
    IF outlet.kind = "BasicOutlet" THEN basic_gate(outlet, vol)
    ELSE basic_gate_with_failure(outlet, vol)

(***************************************************************************)
(* Python list and string operations used by the sorters.                  *)
(***************************************************************************)
\* s[:k] for a Python index k (negative k counts from the end)
PySliceTo(s, k) ==
    IF k >= 0 THEN SubSeq(s, 1, Min(k, Len(s)))
    ELSE SubSeq(s, 1, Max(Len(s) + k, 0))

\* s[k] for a Python index k that is in range
PyIndex(s, k) == IF k >= 0 THEN s[k + 1] ELSE s[Len(s) + k + 1]

\* s[k] raises IndexError
PyIndexRaises(s, k) == k >= Len(s) \/ k < 0 - Len(s)

\* the sort key (outlet.location, outlet.name) of format_outlets
KeyLess(a, b) ==
    \/ a.location < b.location
    \/ a.location = b.location /\ StrLess(a.name, b.name)

RECURSIVE InsertByKey(_, _)
\* x placed after every element whose key is <= its own (a stable sort)
InsertByKey(sorted, x) ==
    IF sorted = <<>> THEN <<x>>
    ELSE IF KeyLess(x, Head(sorted)) THEN <<x>> \o sorted
    ELSE <<Head(sorted)>> \o InsertByKey(Tail(sorted), x)

RECURSIVE SortByKey(_, _)
\* sorted(output, key=lambda outlet: (outlet.location, outlet.name))
SortByKey(todo, sorted) ==
    IF todo = <<>> THEN sorted
    ELSE SortByKey(Tail(todo), InsertByKey(sorted, Head(todo)))

RECURSIVE InsertByLocationDesc(_, _)
\* x placed after every element whose location is >= its own: Python's
\* sort with reverse=True keeps elements of equal key in their given order
InsertByLocationDesc(sorted, x) ==
    IF sorted = <<>> THEN <<x>>
    ELSE IF Head(sorted).location < x.location THEN <<x>> \o sorted
    ELSE <<Head(sorted)>> \o InsertByLocationDesc(Tail(sorted), x)

RECURSIVE SortByLocationDesc(_, _)
\* sorted(_outlets, key=lambda outlet: outlet.location, reverse=True)
SortByLocationDesc(todo, sorted) ==
    IF todo = <<>> THEN sorted
    ELSE SortByLocationDesc(Tail(todo), InsertByLocationDesc(sorted, Head(todo)))

(***************************************************************************)
(* format_outlets (src/reservoir.py).                                      *)
(***************************************************************************)
\* name[:name.index('@') - 1] + mid + name[name.index('@'):]
ReplaceBeforeAt(name, mid) ==
    LET idx == AtIndex(name) - 1
    IN  PySliceTo(name, idx - 1) \o mid \o SubSeq(name, idx + 1, Len(name))

RECURSIVE UniqueName(_, _, _)
\* the while loop of format_outlets: count up until the name is unused
UniqueName(name, i, names) ==
    IF name \in names
    THEN UniqueName(ReplaceBeforeAt(name, IntToStr(i + 1)), i + 1, names)
    ELSE name

\* the first name tried for an outlet: '<name>1@<floor(location)>'
FirstName(outlet) ==
    (IF outlet.name # <<>> THEN outlet.name ELSE OutletStr)
        \o IntToStr(1) \o <<AtChar>> \o IntToStr(outlet.location)

RECURSIVE NameOutlets(_, _, _)
\* the first loop of format_outlets: copies of the outlets under new names
NameOutlets(todo, names, output) ==
    IF todo = <<>> THEN output
    ELSE LET name == UniqueName(FirstName(Head(todo)), 1, names)
         IN  NameOutlets(Tail(todo), names \cup {name},
                         Append(output, [Head(todo) EXCEPT !.name = name]))

\* the second loop of format_outlets: a '1' right before '@' is dropped
DropOne(outlet) ==
    LET idx == AtIndex(outlet.name) - 1
    IN  IF PyIndex(outlet.name, idx - 1) = OneChar
        THEN [outlet EXCEPT !.name = ReplaceBeforeAt(outlet.name, <<>>)]
        ELSE outlet

format_outlets(outlets) ==
    LET sorted_output == SortByKey(NameOutlets(outlets, {}, <<>>), <<>>)
    IN  [i \in 1..Len(sorted_output) |-> DropOne(sorted_output[i])]

(***************************************************************************)
(* outlet_index_sorter and passive_management (src/reservoir.py).          *)
(***************************************************************************)
\* the inner loop of index_sorter: the first index whose outlet equals
\* sorted_outlet (0 when there is none; indices are 1-based here)
FirstIndexOf(sorted_outlet, outlets) ==
    LET hits == {i \in 1..Len(outlets) : outlets[i] = sorted_outlet}
    IN  IF hits = {} THEN 0
        ELSE CHOOSE i \in hits : \A j \in hits : i <= j

\* outlet_index_sorter()(outlets), by location, reverse=True
index_sorter(outlets) ==
    LET sorted_outlets == SortByLocationDesc(outlets, <<>>)
    IN  [k \in 1..Len(sorted_outlets) |-> FirstIndexOf(sorted_outlets[k], outlets)]

RECURSIVE OperateLoop_ReleaseMin(_, _, _, _, _)
\* OperateLoop taking the minimum of the release range at each outlet
OperateLoop_ReleaseMin(outlets, order, vol, output, trace) ==
    IF order = <<>> THEN [volume |-> vol, output |-> output, trace |-> trace]
    ELSE LET idx == Head(order)
             release == release_range(outlets[idx], vol).min
         IN  OperateLoop_ReleaseMin(outlets, Tail(order), vol - release,
                                    Append(output, release),
                                    Append(trace, <<idx, release>>))

RECURSIVE OperateLoop(_, _, _, _, _)
\* the for loop of operate: take release_range(volume).max at each outlet
OperateLoop(outlets, order, vol, output, trace) ==
    IF order = <<>> THEN [volume |-> vol, output |-> output, trace |-> trace]
    ELSE LET idx == Head(order)
             release == release_range(outlets[idx], vol).max
         IN  OperateLoop(outlets, Tail(order), vol - release,
                         Append(output, release),
                         Append(trace, <<idx, release>>))

\* OperateRun with the spill taken from the starting volume instead of the
\* volume left after the releases
OperateRun_SpillFromStart(outlets, capacity, vol) ==
    LET done == OperateLoop(outlets, index_sorter(outlets), vol, <<>>, <<>>)
        store == Min(done.volume, capacity)
        spill == Max(0, vol - capacity)
    IN  [output |-> Append(Append(done.output, spill), store),
         trace |-> done.trace]

\* passive_management(reservoir).operate(volume), with the evaluation history
OperateRun(outlets, capacity, vol) ==
    LET done == OperateLoop(outlets, index_sorter(outlets), vol, <<>>, <<>>)
        store == Min(done.volume, capacity)
        spill == Max(0, done.volume - capacity)
    IN  [output |-> Append(Append(done.output, spill), store),
         trace |-> done.trace]

\* Reservoir.operate
operate(outlets, capacity, vol) == OperateRun(outlets, capacity, vol).output

\* Reservoir.__init__: the outlets attribute
ReservoirOutlets(outlets) ==
    IF outlets # <<>> THEN format_outlets(outlets)
    ELSE format_outlets(<<BasicOutlet(<<>>, 1, ReleaseRange(0, Inf))>>)

\* Reservoir.__init__: the output_headers attribute
ReservoirHeaders(outlets) ==
    [i \in 1..Len(outlets) |-> <<outlets[i].name, "outflow">>]
        \o << <<SpilledStr, "spilled">>, <<StorageStr, "storage">> >>

(***************************************************************************)
(* Asset.portion_remaining (src/asset.py) and update_condition             *)
(* (src/reservoir.py).                                                     *)
(***************************************************************************)
\* Asset.portion_remaining: the portion is the rational num / den; the call
\* raises ValueError outside [salvage_value, initial_value] and
\* ZeroDivisionError when the depreciable value is 0
portion_remaining(asset, asset_value) ==
    IF ~(asset.salvage_value <= asset_value /\ asset_value <= asset.initial_value)
    THEN [raised |-> "ValueError", num |-> 0, den |-> 1]
    ELSE IF asset.initial_value - asset.salvage_value = 0
    THEN [raised |-> "ZeroDivisionError", num |-> 0, den |-> 1]
    ELSE [raised |-> "",
          num |-> Max(0, asset_value - asset.salvage_value),
          den |-> asset.initial_value - asset.salvage_value]

\* update_condition without the test of the current failure state
update_condition_NoStateTest(outlet, asset_value, vol) ==
    LET pval == portion_remaining(outlet.asset, asset_value)
    IN  IF pval.raised # "" THEN [raised |-> pval.raised, outlet |-> outlet, input |-> outlet]
        ELSE IF pval.num > 0
        THEN [raised |-> "", outlet |-> outlet, input |-> outlet]
        ELSE IF vol <= outlet.location
        THEN [raised |-> "",
              outlet |-> OutletAsset(outlet.asset, outlet.name, outlet.location,
                                     "CLOSED", outlet.design_range),
              input |-> outlet]
        ELSE [raised |-> "",
              outlet |-> OutletAsset(outlet.asset, outlet.name, outlet.location,
                                     "OPEN", outlet.design_range),
              input |-> outlet]

\* update_condition with the outlet failing closed only strictly below its
\* location
update_condition_StrictlyBelow(outlet, asset_value, vol) ==
    LET pval == portion_remaining(outlet.asset, asset_value)
    IN  IF pval.raised # "" THEN [raised |-> pval.raised, outlet |-> outlet, input |-> outlet]
        ELSE IF pval.num > 0 \/ outlet.failure_state # "NONE"
        THEN [raised |-> "", outlet |-> outlet, input |-> outlet]
        ELSE IF vol < outlet.location
        THEN [raised |-> "",
              outlet |-> OutletAsset(outlet.asset, outlet.name, outlet.location,
                                     "CLOSED", outlet.design_range),
              input |-> outlet]
        ELSE [raised |-> "",
              outlet |-> OutletAsset(outlet.asset, outlet.name, outlet.location,
                                     "OPEN", outlet.design_range),
              input |-> outlet]

\* update_condition with the failed outlet built with the default design
\* range
update_condition_DefaultRange(outlet, asset_value, vol) ==
    LET pval == portion_remaining(outlet.asset, asset_value)
    IN  IF pval.raised # "" THEN [raised |-> pval.raised, outlet |-> outlet, input |-> outlet]
        ELSE IF pval.num > 0 \/ outlet.failure_state # "NONE"
        THEN [raised |-> "", outlet |-> outlet, input |-> outlet]
        ELSE IF vol <= outlet.location
        THEN [raised |-> "",
              outlet |-> OutletAsset(outlet.asset, outlet.name, outlet.location,
                                     "CLOSED", ReleaseRange(0, Inf)),
              input |-> outlet]
        ELSE [raised |-> "",
              outlet |-> OutletAsset(outlet.asset, outlet.name, outlet.location,
                                     "OPEN", ReleaseRange(0, Inf)),
              input |-> outlet]

\* update_condition(outlet, asset_value, volume): raised names the exception
\* that escapes the call, "" when the call returns outlet; input is the
\* argument object as the call leaves it
update_condition(outlet, asset_value, vol) ==
    LET pval == portion_remaining(outlet.asset, asset_value)
    IN  IF pval.raised # "" THEN [raised |-> pval.raised, outlet |-> outlet, input |-> outlet]
        ELSE IF pval.num > 0 \/ outlet.failure_state # "NONE"
        THEN [raised |-> "", outlet |-> outlet, input |-> outlet]
        ELSE IF vol <= outlet.location
        THEN [raised |-> "",
              outlet |-> OutletAsset(outlet.asset, outlet.name, outlet.location,
                                     "CLOSED", outlet.design_range),
              input |-> outlet]
        ELSE [raised |-> "",
              outlet |-> OutletAsset(outlet.asset, outlet.name, outlet.location,
                                     "OPEN", outlet.design_range),
              input |-> outlet]

\* states.keys() of assess_condition: states is kept as the sequence of the
\* dict's entries [key, probability, outlet] in insertion order
StateKeys(states) == {states[j].key : j \in 1..Len(states)}

\* states[key] = StateAssessment(states[key].probability + dp, outlet); the
\* probability k * dp is the rational num / den with den = len(volumes)
AddProbability(states, key, outlet) ==
    [j \in 1..Len(states) |->
        IF states[j].key = key
        THEN [key |-> key,
              probability |-> [num |-> states[j].probability.num + 1,
                               den |-> states[j].probability.den],
              outlet |-> outlet]
        ELSE states[j]]

\* the loop of OutletAsset.assess_condition over the volumes still to come
RECURSIVE AssessLoop(_, _, _, _)
AssessLoop(outlet, estimated_asset_value, volumes, states) ==
    IF volumes = <<>> THEN [raised |-> "", states |-> states]
    ELSE LET state == update_condition(outlet, estimated_asset_value, Head(volumes))
         IN  IF state.raised # "" THEN [raised |-> state.raised, states |-> states]
             ELSE IF state.outlet.failure_state \notin StateKeys(states)
             THEN [raised |-> "KeyError", states |-> states]
             ELSE AssessLoop(outlet, estimated_asset_value, Tail(volumes),
                             AddProbability(states, state.outlet.failure_state,
                                            state.outlet))

\* OutletAsset.assess_condition(estimated_asset_value, volumes): raised names
\* the exception that escapes the call, "" when it returns list(states.values())
assess_condition(outlet, estimated_asset_value, volumes) ==
    IF Len(volumes) = 0 THEN [raised |-> "ZeroDivisionError", states |-> <<>>]
    ELSE AssessLoop(outlet, estimated_asset_value, volumes, <<>>)

(***************************************************************************)
(* Asset.depreciate (src/asset.py), in exact rational arithmetic: a        *)
(* rational is a record [num, den] with den > 0.                           *)
(***************************************************************************)
Frac(n, d) == IF d < 0 THEN [num |-> -n, den |-> -d] ELSE [num |-> n, den |-> d]
FInt(n) == [num |-> n, den |-> 1]
FAdd(a, b) == [num |-> a.num * b.den + b.num * a.den, den |-> a.den * b.den]
FSub(a, b) == [num |-> a.num * b.den - b.num * a.den, den |-> a.den * b.den]
FMul(a, b) == [num |-> a.num * b.num, den |-> a.den * b.den]
\* a / b for b # 0
FDiv(a, b) == Frac(a.num * b.den, a.den * b.num)
FLeq(a, b) == a.num * b.den <= b.num * a.den
FMin(a, b) == IF FLeq(a, b) THEN a ELSE b
FMax(a, b) == IF FLeq(a, b) THEN b ELSE a

\* x ** e for an exponent e that is a natural number
RECURSIVE FPow(_, _)
FPow(x, e) == IF e = 0 THEN FInt(1) ELSE FMul(x, FPow(x, e - 1))

\* Asset.ft(t); the assets of the model have shape_parameter 1
ft(a, t) ==
    IF FLeq(FInt(a.periods_in_schedule), t) THEN FInt(0)
    ELSE FPow(FSub(FInt(1), FDiv(t, FInt(a.periods_in_schedule))),
              a.shape_parameter)

\* Asset.inverse_ft(y); with shape_parameter 1 the exponent
\* 1 / shape_parameter is 1
inverse_ft(a, y) ==
    IF ~(FLeq(FInt(0), y) /\ FLeq(y, FInt(1)))
    THEN [raised |-> "ValueError", val |-> FInt(0)]
    ELSE [raised |-> "",
          val |-> FMul(FInt(a.periods_in_schedule),
                       FSub(FInt(1), FPow(y, 1 \div a.shape_parameter)))]

\* Asset.scheduler(maintenance)
scheduler(a, maintenance) ==
    IF a.maintenance_requirement < maintenance
    THEN [raised |-> "ValueError", val |-> FInt(0)]
    ELSE [raised |-> "",
          val |-> FAdd(FInt(1),
                       FMul(Frac(a.maintenance_requirement - maintenance,
                                 a.maintenance_requirement),
                            FInt(a.acceleration_factor)))]

\* Asset.depreciate(asset_value, maintenance): raised names the exception that
\* escapes the call, "" when it returns val
depreciate(a, asset_value, maintenance) ==
    LET maint == Min(maintenance, a.maintenance_requirement)
        recap == Max(0, maintenance - a.maintenance_requirement)
        depreciable_value == a.initial_value - a.salvage_value
    IN  IF depreciable_value = 0
        THEN [raised |-> "ZeroDivisionError", val |-> FInt(0)]
        ELSE LET inv == inverse_ft(a, Frac(asset_value, depreciable_value))
                 sch == scheduler(a, maint)
             IN  IF inv.raised # "" THEN [raised |-> inv.raised, val |-> FInt(0)]
                 ELSE IF sch.raised # "" THEN [raised |-> sch.raised, val |-> FInt(0)]
                 ELSE LET t == FAdd(inv.val, sch.val)
                      IN  [raised |-> "",
                           val |-> FMax(FMin(FInt(a.initial_value),
                                             FAdd(FMul(FInt(depreciable_value), ft(a, t)),
                                                  FInt(recap))),
                                        FInt(a.salvage_value))]

(***************************************************************************)
(* Inputs: the outlets, assets and reservoirs the model is run on.         *)
(***************************************************************************)
\* design ranges: the default (0, inf), and a bounded range with min > 0
DesignRanges == {ReleaseRange(0, Inf), ReleaseRange(1, 2)}

\* assets with 0 <= salvage_value <= initial_value
AssetInputs ==
    {a \in [initial_value : 0..MaxAssetValue, salvage_value : 0..MaxAssetValue] :
        a.salvage_value <= a.initial_value}

\* the asset of the OutletAssets placed in a reservoir
ReservoirAsset == [initial_value |-> MaxAssetValue, salvage_value |-> 0]

\* outlets a Reservoir is constructed from: unnamed BasicOutlets and
\* OutletAssets named 'a' in every failure state
OutletInputs ==
    {BasicOutlet(<<>>, l, d) : l \in 0..MaxLocation, d \in DesignRanges}
    \cup
    UNION {{OutletAsset(ReservoirAsset, <<97>>, l, f, d) : l \in 0..MaxLocation} :
              f \in FailureState, d \in DesignRanges}

\* tuples of at most MaxOutlets outlets
OutletTuples == UNION {[1..k -> OutletInputs] : k \in 0..MaxOutlets}

\* OutletAssets update_condition is called on
OutletAssetInputs ==
    UNION {{OutletAsset(a, <<97>>, l, f, d) : a \in AssetInputs, l \in 0..MaxLocation} :
              f \in FailureState, d \in DesignRanges}

(***************************************************************************)
(* Nodes (src/node.py).  The node objects of the model: two Inflows, two   *)
(* Storages and two terminal Outlets.  Senders are Inflow and Storage      *)
(* nodes; an Inflow compares by identity and every Storage owns its own    *)
(* Reservoir object, so Python equality of two senders is identity.        *)
(***************************************************************************)
Inflows == {"i1", "i2"}
Storages == {"s1", "s2"}
Outlets == {"o1", "o2"}
Receivers == Storages \cup Outlets
SenderNodes == Inflows \cup Storages

\* Node.tag
Tag(n) ==
    IF n \in Inflows THEN "inflow"
    ELSE IF n \in Storages THEN "storage"
    ELSE "outlet"

\* s[lo:hi] for Python indices lo and hi
PySlice(s, lo, hi) ==
    LET norm(k) == IF k < 0 THEN Max(Len(s) + k, 0) ELSE Min(k, Len(s))
    IN  SubSeq(s, norm(lo) + 1, norm(hi))

\* Inflow.receive reading the series at the advanced cursor
InflowReceive_Run_PostIndex(series, ts) ==
    LET t1 == ts + 1
    IN  IF PyIndexRaises(series, t1)
        THEN [timestep |-> t1, raised |-> "IndexError", val |-> 0]
        ELSE [timestep |-> t1, raised |-> "", val |-> PyIndex(series, t1)]

\* Inflow.receive with the cursor at ts: the cursor after the call, and the
\* value returned or the exception raised
InflowReceive_Run(series, ts) ==
    LET t1 == ts + 1
    IN  IF PyIndexRaises(series, t1 - 1)
        THEN [timestep |-> t1, raised |-> "IndexError", val |-> 0]
        ELSE [timestep |-> t1, raised |-> "", val |-> PyIndex(series, t1 - 1)]

\* Storage.storage reading the spill, the value before the storage
storage_FromSpill(output) == PyIndex(output, -2)

\* Storage.storage(output)
storage(output) == PyIndex(output, -1)

\* Storage.outflows summing output[1:-1], the spill included
outflows_WithSpill(output) == SumSeq(PySlice(output, 1, -1))

\* Storage.outflows(output)
outflows(output) == SumSeq(PySlice(output, 1, -2))

\* StorageUpdate operating the reservoir on the inflow alone, without the
\* volume the node holds
StorageUpdate_NoCarryOver(res, inflow, vol) ==
    LET output == operate(res.outlets, res.capacity, inflow)
    IN  [arg |-> inflow,
         output |-> output,
         volume |-> storage(output),
         ret |-> <<inflow>> \o output]

\* Storage.update after receive() returned inflow, with the node's volume
\* at vol: the tuple returned and the value handed to operate
StorageUpdate(res, inflow, vol) ==
    LET output == operate(res.outlets, res.capacity, inflow + vol)
    IN  [arg |-> inflow + vol,
         output |-> output,
         volume |-> storage(output),
         ret |-> <<inflow>> \o output]

\* add_sender without the test for a sender that is already registered
add_sender_NoTest(set, sender) == [raised |-> "", senders |-> set \cup {sender}]

\* Storage.add_sender / Outlet.add_sender on a senders set
add_sender(set, sender) ==
    IF sender \in set THEN [raised |-> "ValueError", senders |-> set]
    ELSE [raised |-> "", senders |-> set \cup {sender}]

\* Storage.remove_sender / Outlet.remove_sender on a senders set:
\* set.remove raises KeyError for a missing element
remove_sender(set, sender) ==
    IF sender \notin set THEN [raised |-> "KeyError", senders |-> set]
    ELSE [raised |-> "", senders |-> set \ {sender}]

\* the Log() default of logger's wrapper is built once per decorated
\* method: one Log for Inflow.send, one for Storage.update, one for
\* Outlet.send, whatever the node the method is called on
LogKeys == {"Inflow.send", "Storage.update", "Outlet.send"}

LogKey(n) ==
    IF n \in Inflows THEN "Inflow.send"
    ELSE IF n \in Storages THEN "Storage.update"
    ELSE "Outlet.send"

\* node.output_headers, given the reservoirs res of the storages
output_headers(n, res) ==
    IF n \in Inflows THEN <<"inflow">>
    ELSE IF n \in Storages THEN <<"inflow">> \o ReservoirHeaders(res[n].outlets)
    ELSE <<"outlet">>

\* Log() and the empty REGISTRY; the name of a node is its identifier, so
\* the names are pairwise distinct
NoLogs == [k \in LogKeys |-> [data |-> <<>>, data_headers |-> <<>>]]
NoRegistry == [n \in Inflows \cup Storages \cup Outlets |-> ""]

\* logger's wrapper once the wrapped method of node n has returned output:
\* lg holds the Log objects and the REGISTRY.  An entry of data carries the
\* output and, as history, the node that produced it
logger(lg, n, output, res) ==
    [logs |-> [lg.logs EXCEPT ![LogKey(n)] =
                  [data |-> Append(@.data, [by |-> n, output |-> output]),
                   data_headers |-> output_headers(n, res)]],
     registry |-> [lg.registry EXCEPT ![n] = LogKey(n)]]

\* the senders of n in the order the set is iterated, given an order ord
\* of all sender nodes
SendersInOrder(n, ord) == SelectSeq(ord, LAMBDA m : m \in senders[n])

\* orders in which a senders set may be iterated (a Python set is
\* unordered; sets that are not changed are iterated in the same order
\* every time)
Orders == {<<"i1", "i2", "s1", "s2">>, <<"s2", "s1", "i2", "i1">>}

RECURSIVE Send(_, _, _)
RECURSIVE ReceiveLoop(_, _, _, _)
\* node.send() in evaluation state st: the state after the call and the
\* value returned.  st holds the cursors, the volumes, the number of
\* Storage.update calls per storage, a record of each of them, the Log
\* objects and the REGISTRY, and the exception in flight
Send(n, st, ord) ==
    IF n \in Inflows THEN
        LET r == InflowReceive_Run(data[n], st.timestep[n])
            lg == logger(st, n, r.val, reservoir)
        IN  IF r.raised # ""
            THEN [st |-> [st EXCEPT !.timestep[n] = r.timestep, !.raised = r.raised],
                  val |-> r.val]
            ELSE [st |-> [st EXCEPT !.timestep[n] = r.timestep,
                                    !.logs = lg.logs, !.registry = lg.registry],
                  val |-> r.val]
    ELSE IF n \in Storages THEN
        LET rcv == ReceiveLoop(SendersInOrder(n, ord), st, ord, 0)
            upd == StorageUpdate(reservoir[n], rcv.val, rcv.st.volume[n])
            lg == logger(rcv.st, n, upd.ret, reservoir)
        IN  IF rcv.st.raised # "" THEN rcv
            ELSE [st |-> [rcv.st EXCEPT
                            !.volume[n] = upd.volume,
                            !.updates[n] = @ + 1,
                            !.events = Append(@,
                                [node |-> n, inflow |-> rcv.val,
                                 before |-> rcv.st.volume[n], arg |-> upd.arg,
                                 output |-> upd.output, after |-> upd.volume,
                                 sent |-> outflows(upd.ret)]),
                            !.logs = lg.logs, !.registry = lg.registry],
                  val |-> outflows(upd.ret)]
    ELSE
        LET rcv == ReceiveLoop(SendersInOrder(n, ord), st, ord, 0)
            lg == logger(rcv.st, n, rcv.val, reservoir)
        IN  IF rcv.st.raised # "" THEN rcv
            ELSE [st |-> [rcv.st EXCEPT !.logs = lg.logs, !.registry = lg.registry],
                  val |-> rcv.val]

\* node.receive() of a Storage or Outlet: sum(sender.send() for sender in
\* senders), which stops at the first exception
ReceiveLoop(todo, st, ord, acc) ==
    IF todo = <<>> THEN [st |-> st, val |-> acc]
    ELSE LET r == Send(Head(todo), st, ord)
         IN  IF r.st.raised # "" THEN [st |-> r.st, val |-> 0]
             ELSE ReceiveLoop(Tail(todo), r.st, ord, acc + r.val)

(***************************************************************************)
(* System (src/system.py).                                                 *)
(***************************************************************************)
\* System.outlet() taking the first outlet when there are several
outlet_FirstOfMany(nodes) ==
    LET outlets == SelectSeq(nodes, LAMBDA n : Tag(n) = "outlet")
    IN  IF Len(outlets) < 1 THEN [raised |-> "NotImplementedError", node |-> ""]
        ELSE [raised |-> "", node |-> outlets[1]]

\* System.outlet(): the single node tagged outlet, or NotImplementedError
outlet(nodes) ==
    LET outlets == SelectSeq(nodes, LAMBDA n : Tag(n) = "outlet")
    IN  IF Len(outlets) # 1 THEN [raised |-> "NotImplementedError", node |-> ""]
        ELSE [raised |-> "", node |-> outlets[1]]

\* nodes whose send() a call of n.send() reaches
RECURSIVE Upstream(_, _)
Upstream(n, depth) ==
    IF n \notin Receivers \/ depth = 0 THEN {}
    ELSE senders[n] \cup UNION {Upstream(m, depth - 1) : m \in senders[n]}

\* the sender edges g contain no cycle
Acyclic(g) ==
    /\ \A n \in Storages : n \notin g[n]
    /\ ~("s1" \in g["s2"] /\ "s2" \in g["s1"])

(***************************************************************************)
(* Idle values: each specification below runs one part of the program and  *)
(* leaves the variables of the other parts at these values.                *)
(***************************************************************************)
\* the history before any step, the volumes being initial
NoHistory(initial) ==
    [steps |-> 0, failed |-> FALSE, out |-> 0, spill |-> 0, updated |-> {},
     initial |-> initial]

IdleReservoir ==
    /\ resOutlets = <<>>
    /\ resCapacity = 0
    /\ resHeaders = <<>>
    /\ opVolume = -1
    /\ opOutput = <<>>
    /\ opTrace = <<>>

IdleOutlet ==
    /\ oaOutlet = OutletAsset(ReservoirAsset, <<>>, 0, "NONE", ReleaseRange(0, Inf))
    /\ ucCalled = FALSE
    /\ ucInput = [outlet |-> oaOutlet, asset_value |-> 0, volume |-> 0]
    /\ ucResult = [raised |-> "", outlet |-> oaOutlet, input |-> oaOutlet]
    /\ oaCall = [op |-> "none"]

IdleAsset ==
    /\ dpAsset = [initial_value |-> 0, salvage_value |-> 0,
                  periods_in_schedule |-> 1, maintenance_requirement |-> 1,
                  shape_parameter |-> 1, acceleration_factor |-> 1]
    /\ dpCall = [op |-> "none"]

IdleNodes ==
    /\ data = <<>>
    /\ startPos = <<>>
    /\ timestep = <<>>
    /\ volume = <<>>
    /\ reservoir = <<>>
    /\ senders = <<>>
    /\ sysBuilt = FALSE
    /\ sysNodes = <<>>
    /\ last = [op |-> "init"]
    /\ logs = NoLogs
    /\ registry = NoRegistry
    /\ hist = NoHistory(<<>>)
    /\ setOrder = <<>>

(***************************************************************************)
(* SpecReservoir: a Reservoir is constructed, then operated.               *)
(***************************************************************************)
\* Reservoir(capacity=capacity, outlets=outlets)
InitReservoir ==
    /\ \E outlets \in OutletTuples :
          /\ resOutlets = ReservoirOutlets(outlets)
          /\ resHeaders = ReservoirHeaders(ReservoirOutlets(outlets))
    /\ resCapacity \in 0..MaxCapacity
    /\ opVolume = -1
    /\ opOutput = <<>>
    /\ opTrace = <<>>
    /\ IdleOutlet
    /\ IdleAsset
    /\ IdleNodes

\* Reservoir.operate(v)
Operate(v) ==
    /\ opVolume' = v
    /\ opOutput' = operate(resOutlets, resCapacity, v)
    /\ opTrace' = OperateRun(resOutlets, resCapacity, v).trace
    /\ UNCHANGED <<resOutlets, resCapacity, resHeaders>>
    /\ UNCHANGED oaVars
    /\ UNCHANGED assetVars
    /\ UNCHANGED nodeVars

NextReservoir == \E v \in 0..MaxVolume : Operate(v)

SpecReservoir == InitReservoir /\ [][NextReservoir]_vars

(***************************************************************************)
(* SpecFormat: Reservoirs built from longer tuples of outlets whose base   *)
(* names repeat or end in a digit, then operated.                          *)
(***************************************************************************)
\* outlets named '', 'a' or 'a2', with the default design range
FormatOutletInputs ==
    {BasicOutlet(n, l, ReleaseRange(0, Inf)) :
        n \in {<<>>, <<97>>, <<97, ZeroChar + 2>>}, l \in 0..MaxLocation}

FormatOutletTuples ==
    UNION {[1..k -> FormatOutletInputs] : k \in 0..MaxFormatOutlets}

\* Reservoir(capacity=capacity, outlets=outlets)
InitFormat ==
    /\ \E outlets \in FormatOutletTuples :
          /\ resOutlets = ReservoirOutlets(outlets)
          /\ resHeaders = ReservoirHeaders(ReservoirOutlets(outlets))
    /\ resCapacity \in 0..MaxCapacity
    /\ opVolume = -1
    /\ opOutput = <<>>
    /\ opTrace = <<>>
    /\ IdleOutlet
    /\ IdleAsset
    /\ IdleNodes

SpecFormat == InitFormat /\ [][NextReservoir]_vars

(***************************************************************************)
(* SpecFailure: Reservoirs built from OutletAssets in every failure state, *)
(* with base names that repeat or end in a digit, then operated.           *)
(***************************************************************************)
\* OutletAssets named 'a' or 'a2' at the lowest and the highest location,
\* with a bounded design range whose minimum is above 0
FailureOutletInputs ==
    {OutletAsset(ReservoirAsset, n, l, f, ReleaseRange(1, 2)) :
        n \in {<<97>>, <<97, ZeroChar + 2>>}, l \in {0, MaxLocation},
        f \in FailureState}

FailureOutletTuples ==
    UNION {[1..k -> FailureOutletInputs] : k \in 0..MaxFormatOutlets}

\* Reservoir(capacity=capacity, outlets=outlets)
InitFailure ==
    /\ \E outlets \in FailureOutletTuples :
          /\ resOutlets = ReservoirOutlets(outlets)
          /\ resHeaders = ReservoirHeaders(ReservoirOutlets(outlets))
    /\ resCapacity \in 0..MaxCapacity
    /\ opVolume = -1
    /\ opOutput = <<>>
    /\ opTrace = <<>>
    /\ IdleOutlet
    /\ IdleAsset
    /\ IdleNodes

SpecFailure == InitFailure /\ [][NextReservoir]_vars

(***************************************************************************)
(* SpecAsset: an Asset is constructed, then depreciated.                   *)
(***************************************************************************)
\* Asset(initial_value, salvage_value, periods_in_schedule,
\* maintenance_requirement, shape_parameter, acceleration_factor)
ScheduledAssetInputs ==
    {a \in [initial_value : 0..MaxAssetValue, salvage_value : 0..MaxAssetValue,
            periods_in_schedule : 1..MaxPeriods,
            maintenance_requirement : 1..MaxMaintenance,
            shape_parameter : {1}, acceleration_factor : 1..MaxAcceleration] :
        a.salvage_value <= a.initial_value}

InitAsset ==
    /\ dpAsset \in ScheduledAssetInputs
    /\ dpCall = [op |-> "none"]
    /\ IdleReservoir
    /\ IdleOutlet
    /\ IdleNodes

\* asset.depreciate(asset_value, maintenance)
Depreciate(asset_value, maintenance) ==
    LET res == depreciate(dpAsset, asset_value, maintenance)
    IN  /\ dpCall' = [op |-> "depreciate", asset_value |-> asset_value,
                       maintenance |-> maintenance,
                       raised |-> res.raised, val |-> res.val]
        /\ UNCHANGED dpAsset
        /\ UNCHANGED resVars
        /\ UNCHANGED oaVars
        /\ UNCHANGED nodeVars

NextAsset ==
    \E asset_value \in -1..MaxAssetValue + 1, maintenance \in 0..MaxMaintenance + 1 :
        Depreciate(asset_value, maintenance)

SpecAsset == InitAsset /\ [][NextAsset]_vars

(***************************************************************************)
(* SpecOutlet: an OutletAsset whose holder keeps the outlet that           *)
(* update_condition returns.                                               *)
(***************************************************************************)
InitOutlet ==
    /\ oaOutlet \in OutletAssetInputs
    /\ ucCalled = FALSE
    /\ ucInput = [outlet |-> oaOutlet, asset_value |-> 0, volume |-> 0]
    /\ ucResult = [raised |-> "", outlet |-> oaOutlet, input |-> oaOutlet]
    /\ oaCall = [op |-> "none"]
    /\ IdleReservoir
    /\ IdleAsset
    /\ IdleNodes

\* outlet = update_condition(outlet, asset_value, v)
UpdateCondition(asset_value, v) ==
    LET res == update_condition(oaOutlet, asset_value, v)
    IN  /\ ucCalled' = TRUE
        /\ ucInput' = [outlet |-> oaOutlet, asset_value |-> asset_value, volume |-> v]
        /\ ucResult' = res
        /\ oaOutlet' = IF res.raised = "" THEN res.outlet ELSE oaOutlet
        /\ oaCall' = [op |-> "none"]
        /\ UNCHANGED resVars
        /\ UNCHANGED assetVars
        /\ UNCHANGED nodeVars

\* outlet.release_range(v), and basic_gate(outlet, v) on the same outlet
ReleaseRangeCall(v) ==
    /\ oaCall' = [op |-> "release_range", outlet |-> oaOutlet, volume |-> v,
                   basic |-> basic_gate(oaOutlet, v),
                   result |-> release_range(oaOutlet, v)]
    /\ ucCalled' = FALSE
    /\ ucInput' = [outlet |-> oaOutlet, asset_value |-> 0, volume |-> 0]
    /\ ucResult' = [raised |-> "", outlet |-> oaOutlet, input |-> oaOutlet]
    /\ UNCHANGED oaOutlet
    /\ UNCHANGED resVars
    /\ UNCHANGED assetVars
    /\ UNCHANGED nodeVars

\* candidate volumes handed to assess_condition
VolumeListInputs == {<<>>, <<0>>, <<2>>, <<0, 2>>, <<1, 1>>, <<2, 0, 1>>}

\* outlet.assess_condition(estimated_asset_value, volumes)
AssessCondition(estimated_asset_value, volumes) ==
    LET res == assess_condition(oaOutlet, estimated_asset_value, volumes)
    IN  /\ oaCall' = [op |-> "assess_condition", outlet |-> oaOutlet,
                       estimated_asset_value |-> estimated_asset_value,
                       volumes |-> volumes,
                       raised |-> res.raised, states |-> res.states]
        /\ ucCalled' = FALSE
        /\ ucInput' = [outlet |-> oaOutlet, asset_value |-> 0, volume |-> 0]
        /\ ucResult' = [raised |-> "", outlet |-> oaOutlet, input |-> oaOutlet]
        /\ UNCHANGED oaOutlet
        /\ UNCHANGED resVars
        /\ UNCHANGED assetVars
        /\ UNCHANGED nodeVars

NextOutlet ==
    \/ \E asset_value \in -1..MaxAssetValue + 1, v \in 0..MaxVolume :
            UpdateCondition(asset_value, v)
    \/ \E v \in 0..MaxVolume : ReleaseRangeCall(v)
    \/ \E asset_value \in -1..MaxAssetValue + 1, volumes \in VolumeListInputs :
            AssessCondition(asset_value, volumes)

SpecOutlet == InitOutlet /\ [][NextOutlet]_vars

(***************************************************************************)
(* Inputs of the node graph.                                               *)
(***************************************************************************)
\* inflow series handed to Inflow(data)
SeriesInputs == {<<1, 2>>, <<3, 2, 3>>}

\* Reservoir(): capacity 1.0 and one BasicOutlet(location=1.0)
DefaultReservoir == [capacity |-> 1, outlets |-> ReservoirOutlets(<<>>)]

\* reservoirs handed to Storage(reservoir=...): the default one, and one
\* with two bounded outlets at different locations
StorageReservoirInputs ==
    {DefaultReservoir,
     [capacity |-> MaxCapacity,
      outlets |-> ReservoirOutlets(<<BasicOutlet(<<>>, 0, ReleaseRange(1, 2)),
                                     BasicOutlet(<<>>, 1, ReleaseRange(1, 2))>>)]}

\* node lists handed to System(nodes): with one, two and no terminal Outlet
SystemInputs ==
    {<<"i1", "i2", "s1", "s2", "o1">>,
     <<"i1", "i2", "s1", "s2", "o1", "o2">>,
     <<"i1", "i2", "s1", "s2">>}

\* sender edges handed to the nodes' constructors: every acyclic graph
\* that feeds the storages and the terminal Outlet o1
GraphInputs ==
    {g \in [Receivers -> SUBSET SenderNodes] : g["o2"] = {} /\ Acyclic(g)}

\* number of sender edges
NumEdges == Cardinality({e \in Receivers \X SenderNodes : e[2] \in senders[e[1]]})

(***************************************************************************)
(* SpecInflow: Inflow nodes are constructed, then read and reset.          *)
(***************************************************************************)
\* Inflow(data, starting_position=p) for each inflow node
InitInflow ==
    /\ data \in [Inflows -> SeriesInputs]
    /\ startPos \in [Inflows -> -1..MaxStart]
    /\ timestep = startPos
    /\ volume = [s \in Storages |-> 0]
    /\ reservoir = [s \in Storages |-> DefaultReservoir]
    /\ senders = [r \in Receivers |-> {}]
    /\ sysBuilt = FALSE
    /\ sysNodes = <<>>
    /\ last = [op |-> "init"]
    /\ logs = NoLogs
    /\ registry = NoRegistry
    /\ hist = NoHistory(volume)
    /\ setOrder = <<"i1", "i2", "s1", "s2">>
    /\ IdleReservoir
    /\ IdleOutlet
    /\ IdleAsset

\* i.receive()
InflowReceive(i) ==
    LET r == InflowReceive_Run(data[i], timestep[i])
    IN  /\ timestep[i] <= MaxTimestep
        /\ timestep' = [timestep EXCEPT ![i] = r.timestep]
        /\ last' = [op |-> "receive", node |-> i, pre |-> timestep[i],
                    raised |-> r.raised, val |-> r.val]
        /\ UNCHANGED <<data, startPos, volume, reservoir, senders, sysBuilt, sysNodes>>
        /\ UNCHANGED <<logs, registry, hist, setOrder>>
        /\ UNCHANGED resVars
        /\ UNCHANGED assetVars
        /\ UNCHANGED oaVars

\* i.send(), which returns i.receive() and is logged when it returns
InflowSend(i) ==
    LET r == InflowReceive_Run(data[i], timestep[i])
        lg == logger([logs |-> logs, registry |-> registry], i, r.val, reservoir)
    IN  /\ timestep[i] <= MaxTimestep
        /\ Len(logs[LogKey(i)].data) < MaxSends
        /\ timestep' = [timestep EXCEPT ![i] = r.timestep]
        /\ last' = [op |-> "send", node |-> i, pre |-> timestep[i],
                    raised |-> r.raised, val |-> r.val]
        /\ logs' = IF r.raised = "" THEN lg.logs ELSE logs
        /\ registry' = IF r.raised = "" THEN lg.registry ELSE registry
        /\ UNCHANGED <<data, startPos, volume, reservoir, senders, sysBuilt, sysNodes>>
        /\ UNCHANGED <<hist, setOrder>>
        /\ UNCHANGED resVars
        /\ UNCHANGED assetVars
        /\ UNCHANGED oaVars

\* i.reset()
InflowReset(i) ==
    /\ timestep' = [timestep EXCEPT ![i] = 0]
    /\ last' = [op |-> "reset", node |-> i, pre |-> timestep[i],
                raised |-> "", val |-> 0]
    /\ UNCHANGED <<data, startPos, volume, reservoir, senders, sysBuilt, sysNodes>>
    /\ UNCHANGED <<logs, registry, hist, setOrder>>
    /\ UNCHANGED resVars
    /\ UNCHANGED assetVars
    /\ UNCHANGED oaVars

NextInflow ==
    \E i \in Inflows :
        \/ InflowReceive(i)
        \/ InflowSend(i)
        \/ InflowReset(i)

SpecInflow == InitInflow /\ [][NextInflow]_vars

(***************************************************************************)
(* SpecSenders: sender edges are added to and removed from the Storage     *)
(* and Outlet nodes.                                                       *)
(***************************************************************************)
InitSenders ==
    /\ data = [i \in Inflows |-> <<1, 2>>]
    /\ startPos = [i \in Inflows |-> 0]
    /\ timestep = startPos
    /\ volume = [s \in Storages |-> 0]
    /\ reservoir = [s \in Storages |-> DefaultReservoir]
    /\ senders = [r \in Receivers |-> {}]
    /\ sysBuilt = FALSE
    /\ sysNodes = <<>>
    /\ last = [op |-> "init"]
    /\ logs = NoLogs
    /\ registry = NoRegistry
    /\ hist = NoHistory(volume)
    /\ setOrder = <<"i1", "i2", "s1", "s2">>
    /\ IdleReservoir
    /\ IdleOutlet
    /\ IdleAsset

\* r.add_sender(n)
AddSender(r, n) ==
    LET res == add_sender(senders[r], n)
    IN  /\ NumEdges < MaxEdges \/ n \in senders[r]
        /\ senders' = [senders EXCEPT ![r] = res.senders]
        /\ last' = [op |-> "add_sender", node |-> r, sender |-> n,
                    pre |-> senders, raised |-> res.raised]
        /\ UNCHANGED <<data, startPos, timestep, volume, reservoir, sysBuilt, sysNodes>>
        /\ UNCHANGED <<logs, registry, hist, setOrder>>
        /\ UNCHANGED resVars
        /\ UNCHANGED assetVars
        /\ UNCHANGED oaVars

\* r.remove_sender(n)
RemoveSender(r, n) ==
    LET res == remove_sender(senders[r], n)
    IN  /\ senders' = [senders EXCEPT ![r] = res.senders]
        /\ last' = [op |-> "remove_sender", node |-> r, sender |-> n,
                    pre |-> senders, raised |-> res.raised]
        /\ UNCHANGED <<data, startPos, timestep, volume, reservoir, sysBuilt, sysNodes>>
        /\ UNCHANGED <<logs, registry, hist, setOrder>>
        /\ UNCHANGED resVars
        /\ UNCHANGED assetVars
        /\ UNCHANGED oaVars

NextSenders ==
    \E r \in Receivers, n \in SenderNodes :
        \/ AddSender(r, n)
        \/ RemoveSender(r, n)

SpecSenders == InitSenders /\ [][NextSenders]_vars

(***************************************************************************)
(* Spec: the nodes are constructed with their senders, a System is         *)
(* constructed from a node list and stepped forward.                       *)
(***************************************************************************)
Init ==
    /\ data \in {[i \in Inflows |-> d] : d \in SeriesInputs}
    /\ startPos = [i \in Inflows |-> 0]
    /\ timestep = startPos
    /\ volume = [s \in Storages |-> 0]
    /\ reservoir \in {[s \in Storages |-> r] : r \in StorageReservoirInputs}
    /\ senders \in GraphInputs
    /\ sysBuilt = FALSE
    /\ sysNodes = <<>>
    /\ last = [op |-> "init"]
    /\ logs = NoLogs
    /\ registry = NoRegistry
    /\ hist = NoHistory(volume)
    /\ setOrder \in Orders
    /\ IdleReservoir
    /\ IdleOutlet
    /\ IdleAsset

\* System(nodes, log_directory)
NewSystem(nodes) ==
    /\ ~sysBuilt
    /\ sysBuilt' = TRUE
    /\ sysNodes' = nodes
    /\ last' = [op |-> "System", raised |-> ""]
    /\ UNCHANGED <<data, startPos, timestep, volume, reservoir, senders>>
    /\ UNCHANGED <<logs, registry, hist, setOrder>>
    /\ UNCHANGED resVars
    /\ UNCHANGED assetVars
    /\ UNCHANGED oaVars

\* spill of a tuple returned by Reservoir.operate: the value before the
\* storage
Spill(output) == PyIndex(output, -2)

\* the history after a step that ran Send to the result run: a step that
\* raised marks the history failed; one that returned adds the value the
\* outlet returned and the spills of the Storage.update calls
StepHistory(h, run) ==
    LET ev == run.st.events
        upd == {ev[j].node : j \in 1..Len(ev)}
    IN  IF run.st.raised # ""
        THEN [h EXCEPT !.failed = TRUE, !.updated = @ \cup upd]
        ELSE [h EXCEPT !.steps = @ + 1,
                       !.out = @ + run.val,
                       !.spill = @ + SumSeq([j \in 1..Len(ev) |-> Spill(ev[j].output)]),
                       !.updated = @ \cup upd]

\* System.step_forward(): self.outlet().send(), the senders sets being
\* iterated in order ord
StepForward(ord) ==
    LET found == outlet(sysNodes)
        st0 == [timestep |-> timestep, volume |-> volume,
                updates |-> [s \in Storages |-> 0], events |-> <<>>,
                logs |-> logs, registry |-> registry,
                raised |-> ""]
        run == Send(found.node, st0, ord)
    IN  /\ sysBuilt
        /\ \A i \in Inflows : timestep[i] <= MaxTimestep
        /\ hist.steps < MaxSteps
        /\ IF found.raised # ""
           THEN /\ last' = [op |-> "step", raised |-> found.raised, val |-> 0,
                            timestep |-> timestep, volume |-> volume,
                            updates |-> st0.updates, events |-> <<>>,
                            upstream |-> {}]
                /\ hist' = [hist EXCEPT !.failed = TRUE]
                /\ UNCHANGED <<timestep, volume, logs, registry>>
           ELSE /\ last' = [op |-> "step", raised |-> run.st.raised, val |-> run.val,
                            timestep |-> timestep, volume |-> volume,
                            updates |-> run.st.updates, events |-> run.st.events,
                            upstream |-> Upstream(found.node, Cardinality(Receivers))]
                /\ timestep' = run.st.timestep
                /\ volume' = run.st.volume
                /\ logs' = run.st.logs
                /\ registry' = run.st.registry
                /\ hist' = StepHistory(hist, run)
        /\ UNCHANGED <<data, startPos, reservoir, senders, sysBuilt, sysNodes, setOrder>>
        /\ UNCHANGED resVars
        /\ UNCHANGED assetVars
        /\ UNCHANGED oaVars

Next ==
    \/ \E nodes \in SystemInputs : NewSystem(nodes)
    \/ StepForward(setOrder)

Spec == Init /\ [][Next]_vars

(***************************************************************************)
(* SpecTree: as Spec, on the tree-shaped graphs (every Inflow and Storage  *)
(* sends to exactly one receiver) and with storages that start non-empty.  *)
(***************************************************************************)
\* the sender edges g form a tree that drains to the terminal Outlet o1
IsTree(g) ==
    /\ g["o2"] = {}
    /\ Acyclic(g)
    /\ \A n \in SenderNodes : Cardinality({r \in Receivers : n \in g[r]}) = 1

TreeGraphs == {g \in GraphInputs : IsTree(g)}

\* volumes handed to Storage(volume=...): empty, and above every capacity
InitialVolumes == {0, MaxCapacity + 1}

InitTree ==
    /\ data \in [Inflows -> SeriesInputs]
    /\ startPos = [i \in Inflows |-> 0]
    /\ timestep = startPos
    /\ volume \in [Storages -> InitialVolumes]
    /\ reservoir \in [Storages -> StorageReservoirInputs]
    /\ senders \in TreeGraphs
    /\ sysBuilt = FALSE
    /\ sysNodes = <<>>
    /\ last = [op |-> "init"]
    /\ logs = NoLogs
    /\ registry = NoRegistry
    /\ hist = NoHistory(volume)
    /\ setOrder \in Orders
    /\ IdleReservoir
    /\ IdleOutlet
    /\ IdleAsset

SpecTree == InitTree /\ [][Next]_vars

(***************************************************************************)
(* Claims about Reservoir.operate (SpecReservoir).                         *)
(***************************************************************************)
\* number of outlets of the reservoir
NumOutlets == Len(resOutlets)

\* C1: the outlet releases, the spill and the stored volume returned by
\* Reservoir.operate(startingVolume) sum exactly to startingVolume.
C1_Conservation ==
    opVolume >= 0 => SumSeq(opOutput) = opVolume

\* C1 witness: an operate call that released, spilled and stored water
C1_Witness ==
    /\ opVolume > 0
    /\ \E i \in 1..NumOutlets : opOutput[i] > 0
    /\ opOutput[NumOutlets + 1] > 0
    /\ opOutput[NumOutlets + 2] > 0

\* C2: the i-th value returned by Reservoir.operate is the release made at
\* the outlet named by the i-th entry of output_headers, followed by the
\* spill under 'spilled' and the stored volume under 'storage'.
C2_OutputMatchesHeaders ==
    opVolume >= 0 =>
        /\ Len(opOutput) = Len(resHeaders)
        /\ \A i \in 1..NumOutlets : resHeaders[i] = <<resOutlets[i].name, "outflow">>
        /\ resHeaders[NumOutlets + 1] = <<SpilledStr, "spilled">>
        /\ resHeaders[NumOutlets + 2] = <<StorageStr, "storage">>
        /\ \A j \in 1..Len(opTrace) : opOutput[opTrace[j][1]] = opTrace[j][2]

(***************************************************************************)
(* Claims about update_condition (SpecOutlet).                             *)
(***************************************************************************)
\* the asset value of the last call lies in [salvage_value, initial_value]
\* of an asset that has a depreciable value
UcValueInDomain ==
    /\ ucInput.outlet.asset.salvage_value < ucInput.outlet.asset.initial_value
    /\ ucInput.outlet.asset.salvage_value <= ucInput.asset_value
    /\ ucInput.asset_value <= ucInput.outlet.asset.initial_value

\* the last call was made on an outlet in failure state Open or Closed
UcOnFailedOutlet == ucCalled /\ ucInput.outlet.failure_state \in {"OPEN", "CLOSED"}

\* the last call was made on an outlet in state None whose asset's remaining
\* portion is 0
UcOnWornOutOutlet ==
    /\ ucCalled
    /\ ucInput.outlet.failure_state = "NONE"
    /\ portion_remaining(ucInput.outlet.asset, ucInput.asset_value).raised = ""
    /\ portion_remaining(ucInput.outlet.asset, ucInput.asset_value).num = 0

\* C9 as claimed: on an outlet in failure state Open or Closed,
\* update_condition returns an outlet with the same failure state for every
\* asset value, asset values outside [salvage_value, initial_value] included.
C9_Original ==
    UcOnFailedOutlet =>
        /\ ucResult.raised = ""
        /\ ucResult.outlet.failure_state = ucInput.outlet.failure_state

\* C9 as amended: on an outlet in failure state Open or Closed,
\* update_condition returns the outlet unchanged for every volume and every
\* asset value in [salvage_value, initial_value] of an asset with
\* salvage_value < initial_value; for any other asset value it raises and
\* returns no outlet, and the outlet held keeps its failure state.
C9_FailureIsPermanent ==
    UcOnFailedOutlet =>
        /\ UcValueInDomain => ucResult.raised = "" /\ ucResult.outlet = ucInput.outlet
        /\ ~UcValueInDomain => ucResult.raised # ""
        /\ oaOutlet = ucInput.outlet

\* C9 witness: a call on an Open outlet with the asset at salvage value and
\* the volume at or below the location, where a first failure would close it
C9_Witness ==
    /\ UcOnFailedOutlet
    /\ UcValueInDomain
    /\ ucInput.outlet.failure_state = "OPEN"
    /\ ucInput.asset_value = ucInput.outlet.asset.salvage_value
    /\ ucInput.volume <= ucInput.outlet.location
    /\ ucResult.raised = ""

\* C10 as claimed: an outlet in state None whose asset's remaining portion
\* is 0 is returned Closed when volume < location and Open when
\* volume >= location.
C10_Original ==
    UcOnWornOutOutlet =>
        /\ ucResult.raised = ""
        /\ ucResult.outlet.failure_state =
              IF ucInput.volume < ucInput.outlet.location THEN "CLOSED" ELSE "OPEN"

\* C10 as amended: an outlet in state None whose asset's remaining portion
\* is 0 is returned Closed when volume <= location and Open when
\* volume > location.
C10_FailsClosedAtOrBelowLocation ==
    UcOnWornOutOutlet =>
        /\ ucResult.raised = ""
        /\ ucResult.outlet.failure_state =
              IF ucInput.volume <= ucInput.outlet.location THEN "CLOSED" ELSE "OPEN"

\* C10 witness: the asset is worn out with the volume exactly at the location
C10_Witness ==
    /\ UcOnWornOutOutlet
    /\ ucInput.volume = ucInput.outlet.location
    /\ ucResult.outlet.failure_state = "CLOSED"

(***************************************************************************)
(* Claims about the Storage nodes and the System (Spec).                   *)
(***************************************************************************)
\* the last operation was a step_forward
Stepped == last.op = "step"

\* the System's node list holds exactly two nodes tagged outlet
TwoOutlets ==
    Cardinality({k \in 1..Len(sysNodes) : Tag(sysNodes[k]) = "outlet"}) = 2

\* the releases of a reservoir output tuple: all but the spill and the
\* stored volume at its end
Releases(output) == SubSeq(output, 1, Len(output) - 2)

\* C3: Storage.send hands inflow + volume to reservoir.operate, sets volume
\* to the last element of the outputs, and returns to its receiver the sum
\* of the outlet releases only, without inflow, spill or stored volume.
C3_StorageSend ==
    Stepped =>
        /\ \A k \in 1..Len(last.events) :
              LET e == last.events[k]
              IN  /\ e.arg = e.inflow + e.before
                  /\ e.output = operate(reservoir[e.node].outlets,
                                        reservoir[e.node].capacity, e.arg)
                  /\ e.after = e.output[Len(e.output)]
                  /\ e.sent = SumSeq(Releases(e.output))
                  /\ e.before =
                        IF \E j \in 1..(k - 1) : last.events[j].node = e.node
                        THEN last.events[CHOOSE j \in 1..(k - 1) :
                                /\ last.events[j].node = e.node
                                /\ \A m \in (j + 1)..(k - 1) :
                                      last.events[m].node # e.node].after
                        ELSE last.volume[e.node]
                  /\ (\A j \in (k + 1)..Len(last.events) : last.events[j].node # e.node)
                        => volume[e.node] = e.after

\* C3 witness: a Storage.send with inflow, a stored volume before and after
\* it, a spill, and releases
C3_Witness ==
    /\ Stepped
    /\ \E k \in 1..Len(last.events) :
          LET e == last.events[k]
          IN  /\ e.inflow > 0
              /\ e.before > 0
              /\ e.after > 0
              /\ e.output[Len(e.output) - 1] > 0
              /\ e.sent > 0

\* C4: in every step on an acyclic graph with exactly one terminal outlet,
\* each Storage reachable from the terminal outlet has its volume updated
\* exactly once.
C4_UpdatedOncePerStep ==
    (Stepped /\ last.raised = "") =>
        \A s \in last.upstream \cap Storages : last.updates[s] = 1

\* C7 as claimed: constructing a System from a node list with two terminal
\* outlets fails, so no such System exists.
C7_Original == TwoOutlets => ~sysBuilt

\* C7 as amended: a System is constructed from a node list with two
\* terminal outlets without error; every step_forward on it raises
\* NotImplementedError before any node is evaluated.
C7_StepFailsWithTwoOutlets ==
    (sysBuilt /\ TwoOutlets) =>
        /\ last.op = "System" => last.raised = ""
        /\ Stepped =>
              /\ last.raised = "NotImplementedError"
              /\ last.events = <<>>
              /\ timestep = last.timestep
              /\ volume = last.volume

\* C7 witness: a step attempted on a System with two terminal outlets whose
\* first outlet has senders
C7_Witness ==
    /\ sysBuilt
    /\ TwoOutlets
    /\ Stepped
    /\ senders["o1"] # {}

(***************************************************************************)
(* Claims about Inflow (SpecInflow).                                       *)
(***************************************************************************)
\* C5: Inflow.receive (and send) advances the cursor by one and returns the
\* series value at the pre-advance index (a negative index counting from
\* the end, as Python indexes); once the cursor has reached the length of
\* the series the call raises IndexError instead of returning a value.
C5_InflowReceive ==
    last.op \in {"receive", "send"} =>
        LET i == last.node
            n == Len(data[i])
        IN  /\ timestep[i] = last.pre + 1
            /\ (0 <= last.pre /\ last.pre < n) =>
                  last.raised = "" /\ last.val = data[i][last.pre + 1]
            /\ (0 - n <= last.pre /\ last.pre < 0) =>
                  last.raised = "" /\ last.val = data[i][n + last.pre + 1]
            /\ last.pre >= n => last.raised = "IndexError"

\* C5 witness: a receive made after an earlier one already found the series
\* exhausted
C5_Witness ==
    /\ last.op \in {"receive", "send"}
    /\ last.pre > Len(data[last.node])
    /\ last.raised = "IndexError"

\* C6: after Inflow.reset() the cursor is back at the position the Inflow
\* was constructed with.
C6_ResetRestoresStart ==
    last.op = "reset" => timestep[last.node] = startPos[last.node]

(***************************************************************************)
(* Claims about add_sender and remove_sender (SpecSenders).                *)
(***************************************************************************)
\* C8: on Storage and Outlet nodes add_sender of a registered sender fails
\* and remove_sender of an unregistered sender fails, both leaving every
\* sender set unchanged; a succeeding add_sender adds exactly that node and
\* a succeeding remove_sender removes exactly that node.
C8_SenderContract ==
    /\ last.op = "add_sender" =>
          IF last.sender \in last.pre[last.node]
          THEN last.raised # "" /\ senders = last.pre
          ELSE /\ last.raised = ""
               /\ senders = [last.pre EXCEPT ![last.node] = @ \cup {last.sender}]
    /\ last.op = "remove_sender" =>
          IF last.sender \notin last.pre[last.node]
          THEN last.raised # "" /\ senders = last.pre
          ELSE /\ last.raised = ""
               /\ senders = [last.pre EXCEPT ![last.node] = @ \ {last.sender}]

\* C8 witness: add_sender of a registered sender failed on a node that has
\* another sender too
C8_Witness ==
    /\ last.op = "add_sender"
    /\ last.raised # ""
    /\ last.sender \in senders[last.node]
    /\ Cardinality(senders[last.node]) > 1

(***************************************************************************)
(* Claims about release_range, assess_condition and update_condition,      *)
(* checked under SpecOutlet.                                               *)
(***************************************************************************)
\* the last call on the outlet was release_range
RrCalled == oaCall.op = "release_range"

\* the last call on the outlet was assess_condition
AcCalled == oaCall.op = "assess_condition"

\* sum of the probabilities' numerators over the buckets assess_condition
\* returned
RECURSIVE SumNum(_)
SumNum(states) ==
    IF states = <<>> THEN 0
    ELSE Head(states).probability.num + SumNum(Tail(states))

\* C11 as claimed: for an estimated asset value in
\* [salvage_value, initial_value] and a non-empty list of volumes,
\* assess_condition returns buckets, one per distinct failure state that
\* update_condition yields over the volumes, whose probabilities sum to 1.
C11_Original ==
    (/\ AcCalled
     /\ oaCall.outlet.asset.salvage_value <= oaCall.estimated_asset_value
     /\ oaCall.estimated_asset_value <= oaCall.outlet.asset.initial_value
     /\ oaCall.volumes # <<>>) =>
        /\ oaCall.raised = ""
        /\ \A j, k \in 1..Len(oaCall.states) :
              oaCall.states[j].key = oaCall.states[k].key => j = k
        /\ StateKeys(oaCall.states) =
              {update_condition(oaCall.outlet, oaCall.estimated_asset_value,
                                oaCall.volumes[j]).outlet.failure_state :
                  j \in 1..Len(oaCall.volumes)}
        /\ SumNum(oaCall.states) = Len(oaCall.volumes)
        /\ \A j \in 1..Len(oaCall.states) :
              oaCall.states[j].probability.den = Len(oaCall.volumes)

\* C12: for an outlet with 0 <= design_range.min <= design_range.max,
\* basic_gate returns (0, 0) when volume < location, and otherwise the range
\* (min(design_range.min, over), min(over, design_range.max)) with
\* over = volume - location, which satisfies 0 <= min <= max <= over.
C12_BasicGate ==
    (/\ RrCalled
     /\ 0 <= oaCall.outlet.design_range.min
     /\ oaCall.outlet.design_range.min <= oaCall.outlet.design_range.max) =>
        LET over == oaCall.volume - oaCall.outlet.location
        IN  IF oaCall.volume < oaCall.outlet.location
            THEN oaCall.basic = ReleaseRange(0, 0)
            ELSE /\ 0 <= oaCall.basic.min
                 /\ oaCall.basic.min <= oaCall.basic.max
                 /\ oaCall.basic.max <= over
                 /\ oaCall.basic.min = Min(oaCall.outlet.design_range.min, over)
                 /\ oaCall.basic.max = Min(over, oaCall.outlet.design_range.max)

\* C12 witness: the volume over the outlet is positive and below the design
\* maximum, so that the volume caps the release
C12_Witness ==
    /\ RrCalled
    /\ oaCall.volume - oaCall.outlet.location > 0
    /\ oaCall.volume - oaCall.outlet.location < oaCall.outlet.design_range.max
    /\ oaCall.outlet.design_range.min > 0
    /\ oaCall.basic.max = oaCall.volume - oaCall.outlet.location

\* C13: release_range of an OutletAsset is the basic range in failure state
\* None, (basicMax, basicMax) in state Open and (0, 0) in state Closed, where
\* basicMax is the max of the basic range at that volume.
C13_ReleaseRangeByFailureState ==
    (RrCalled /\ oaCall.outlet.kind = "OutletAsset") =>
        /\ oaCall.outlet.failure_state = "NONE" => oaCall.result = oaCall.basic
        /\ oaCall.outlet.failure_state = "OPEN" =>
              oaCall.result = ReleaseRange(oaCall.basic.max, oaCall.basic.max)
        /\ oaCall.outlet.failure_state = "CLOSED" =>
              oaCall.result = ReleaseRange(0, 0)

\* C13 witness: an outlet failed open at a volume where the basic range has
\* min < max
C13_Witness ==
    /\ RrCalled
    /\ oaCall.outlet.kind = "OutletAsset"
    /\ oaCall.outlet.failure_state = "OPEN"
    /\ oaCall.basic.min < oaCall.basic.max
    /\ oaCall.result.min = oaCall.basic.max

\* the last call was update_condition on an outlet in state None with an
\* asset value in [salvage_value, initial_value]
UcOnSoundOutlet ==
    /\ ucCalled
    /\ ucInput.outlet.failure_state = "NONE"
    /\ ucInput.outlet.asset.salvage_value <= ucInput.asset_value
    /\ ucInput.asset_value <= ucInput.outlet.asset.initial_value

\* the frame of an update_condition call that returned: the argument object
\* is as it was, and the returned outlet has its asset, name, location and
\* design_range
UcFrame ==
    /\ ucResult.input = ucInput.outlet
    /\ ucResult.outlet.asset = ucInput.outlet.asset
    /\ ucResult.outlet.name = ucInput.outlet.name
    /\ ucResult.outlet.location = ucInput.outlet.location
    /\ ucResult.outlet.design_range = ucInput.outlet.design_range

\* C18 as claimed: on an outlet in state None and an asset value in
\* [salvage_value, initial_value], update_condition returns an outlet whose
\* failure state differs exactly when the remaining portion is 0 (the asset
\* value is the salvage value), returns the input when the portion is > 0,
\* leaves the input as it was and keeps asset, name, location, design_range.
C18_Original ==
    UcOnSoundOutlet =>
        /\ ucResult.raised = ""
        /\ (ucResult.outlet.failure_state # "NONE") <=>
              (ucInput.asset_value = ucInput.outlet.asset.salvage_value)
        /\ ucInput.asset_value > ucInput.outlet.asset.salvage_value =>
              ucResult.outlet = ucInput.outlet
        /\ UcFrame

\* C18 as amended: the same, for an asset with salvage_value < initial_value;
\* with salvage_value = initial_value the remaining portion is undefined and
\* the call raises ZeroDivisionError, returning no outlet and leaving the
\* input as it was.
C18_OnlyWornOutChangesState ==
    UcOnSoundOutlet =>
        IF ucInput.outlet.asset.salvage_value < ucInput.outlet.asset.initial_value
        THEN /\ ucResult.raised = ""
             /\ (ucResult.outlet.failure_state # "NONE") <=>
                   (ucInput.asset_value = ucInput.outlet.asset.salvage_value)
             /\ ucInput.asset_value > ucInput.outlet.asset.salvage_value =>
                   ucResult.outlet = ucInput.outlet
             /\ UcFrame
        ELSE /\ ucResult.raised = "ZeroDivisionError"
             /\ ucResult.input = ucInput.outlet
             /\ oaOutlet = ucInput.outlet

\* C18 witness: the asset of an outlet with a bounded design range is at its
\* salvage value, and the call returns a failed outlet
C18_Witness ==
    /\ UcOnSoundOutlet
    /\ ucInput.outlet.asset.salvage_value < ucInput.outlet.asset.initial_value
    /\ ucInput.asset_value = ucInput.outlet.asset.salvage_value
    /\ ucInput.outlet.design_range # ReleaseRange(0, Inf)
    /\ ucResult.raised = ""
    /\ ucResult.outlet.failure_state # "NONE"

(***************************************************************************)
(* Claims about format_outlets and the evaluation order of operate,        *)
(* checked under SpecFormat.                                               *)
(***************************************************************************)
\* C15 as claimed: the names of a Reservoir's formatted outlets are pairwise
\* distinct, whatever the base names and locations of the outlets passed.
C15_Original ==
    \A j, k \in 1..Len(resOutlets) :
        resOutlets[j].name = resOutlets[k].name => j = k

\* volume left when the j-th evaluation of the last operate call starts
RECURSIVE VolumeBefore(_)
VolumeBefore(j) ==
    IF j = 1 THEN opVolume ELSE VolumeBefore(j - 1) - opTrace[j - 1][2]

\* C17 as claimed: operate evaluates every outlet exactly once, in
\* non-increasing order of location and, at equal locations, in ascending
\* order of name; each release is release_range(currentVolume).max, where
\* currentVolume is the starting volume less the releases taken before.
C17_Original ==
    opVolume >= 0 =>
        /\ Len(opTrace) = Len(resOutlets)
        /\ \A i \in 1..Len(resOutlets) :
              Cardinality({j \in 1..Len(opTrace) : opTrace[j][1] = i}) = 1
        /\ \A j, k \in 1..Len(opTrace) :
              j < k =>
                 LET a == resOutlets[opTrace[j][1]]
                     b == resOutlets[opTrace[k][1]]
                 IN  /\ a.location >= b.location
                     /\ a.location = b.location => StrLess(a.name, b.name)
        /\ \A j \in 1..Len(opTrace) :
              opTrace[j][2] =
                  release_range(resOutlets[opTrace[j][1]], VolumeBefore(j)).max

(***************************************************************************)
(* Claim about Asset.depreciate, checked under SpecAsset.                  *)
(***************************************************************************)
\* C14 as claimed: for an asset with salvage_value <= initial_value, an
\* asset value in [salvage_value, initial_value] and a maintenance >= 0,
\* depreciate returns a value in [salvage_value, initial_value].
C14_Original ==
    (/\ dpCall.op = "depreciate"
     /\ dpAsset.salvage_value <= dpAsset.initial_value
     /\ dpAsset.salvage_value <= dpCall.asset_value
     /\ dpCall.asset_value <= dpAsset.initial_value
     /\ dpCall.maintenance >= 0) =>
        /\ dpCall.raised = ""
        /\ FLeq(FInt(dpAsset.salvage_value), dpCall.val)
        /\ FLeq(dpCall.val, FInt(dpAsset.initial_value))

(***************************************************************************)
(* Claims about the logs, the volumes and the mass balance of a            *)
(* tree-shaped system, checked under SpecTree.                             *)
(***************************************************************************)
\* every step_forward call so far has returned, and there was at least one
StepsReturned == sysBuilt /\ ~hist.failed /\ hist.steps > 0

\* C16 as claimed: after N step_forward calls that returned on a tree-shaped
\* system, the log registered under the name of each node holds exactly N
\* records, each of them produced by that node.
C16_Original ==
    (StepsReturned /\ IsTree(senders)) =>
        \A n \in Inflows \cup Storages \cup {"o1"} :
            /\ registry[n] # ""
            /\ Len(logs[registry[n]].data) = hist.steps
            /\ \A j \in 1..Len(logs[registry[n]].data) :
                  logs[registry[n]].data[j].by = n

\* C19: a Storage that has been sent from holds a volume in 0..capacity, and
\* in every tuple a Storage emitted in the last step the releases and the
\* spill are >= 0, the new volume is in 0..capacity, and the spill is > 0
\* only when the new volume equals the capacity.
C19_VolumeWithinCapacity ==
    /\ \A s \in hist.updated :
          0 <= volume[s] /\ volume[s] <= reservoir[s].capacity
    /\ last.op = "step" =>
          \A j \in 1..Len(last.events) :
              LET e == last.events[j]
                  cap == reservoir[e.node].capacity
              IN  /\ \A k \in 1..(Len(e.output) - 1) : e.output[k] >= 0
                  /\ 0 <= e.after /\ e.after <= cap
                  /\ e.after = storage(e.output)
                  /\ Spill(e.output) > 0 => e.after = cap

\* C19 witness: a Storage that started above its capacity released and
\* spilled in the last step
C19_Witness ==
    /\ last.op = "step"
    /\ \E j \in 1..Len(last.events) :
          LET e == last.events[j]
          IN  /\ hist.initial[e.node] > reservoir[e.node].capacity
              /\ e.before > reservoir[e.node].capacity
              /\ Spill(e.output) > 0
              /\ e.sent > 0
              /\ volume[e.node] = reservoir[e.node].capacity

\* the inflow values the Inflow node i has consumed
Consumed(i) == SumSeq(SubSeq(data[i], startPos[i] + 1, timestep[i]))

\* sum of f[x] over the elements x of the set S
RECURSIVE SumOver(_, _)
SumOver(f, S) ==
    IF S = {} THEN 0
    ELSE LET x == CHOOSE y \in S : TRUE IN f[x] + SumOver(f, S \ {x})

\* C20: on a tree-shaped graph, after any number of step_forward calls that
\* returned, the initial volumes plus the inflow consumed equal the values
\* the terminal Outlet returned plus the spills plus the final volumes.
C20_MassBalance ==
    (sysBuilt /\ ~hist.failed /\ IsTree(senders)) =>
        SumOver(hist.initial, Storages)
            + SumOver([i \in Inflows |-> Consumed(i)], Inflows)
        = hist.out + hist.spill + SumOver(volume, Storages)

\* C20 witness: two or more steps returned, with water spilled, water sent
\* out, storages that started non-empty and storages that end non-empty
C20_Witness ==
    /\ sysBuilt /\ ~hist.failed /\ IsTree(senders)
    /\ hist.steps >= 2
    /\ hist.spill > 0
    /\ hist.out > 0
    /\ SumOver(hist.initial, Storages) > 0
    /\ SumOver(volume, Storages) > 0
    /\ \E s \in Storages : senders[s] \cap Storages # {}

(***************************************************************************)
(* Claim about the failure state of an outlet in a Reservoir, checked      *)
(* under SpecFailure.                                                      *)
(***************************************************************************)
\* the outlets of a Reservoir with the failure_state of the i-th set to f
WithState(outlets, i, f) == [outlets EXCEPT ![i].failure_state = f]

\* the releases a run of operate took at the i-th outlet
OwnReleases(run, i) ==
    {run.trace[j][2] : j \in {k \in 1..Len(run.trace) : run.trace[k][1] = i}}

\* C21: under passive management operate returns the same tuple whether a
\* given OutletAsset is in failure state NONE or OPEN; with that outlet
\* CLOSED its own release is 0 and the values returned still sum to the
\* same total, the starting volume.
C21_FailureStateEquivalence ==
    opVolume >= 0 =>
        \A i \in 1..Len(resOutlets) :
            resOutlets[i].kind = "OutletAsset" =>
                LET none == operate(WithState(resOutlets, i, "NONE"),
                                    resCapacity, opVolume)
                    open == operate(WithState(resOutlets, i, "OPEN"),
                                    resCapacity, opVolume)
                    closed == OperateRun(WithState(resOutlets, i, "CLOSED"),
                                         resCapacity, opVolume)
                IN  /\ none = open
                    /\ resOutlets[i].failure_state # "CLOSED" => opOutput = none
                    /\ resOutlets[i].failure_state = "CLOSED" =>
                           opOutput = closed.output
                    /\ OwnReleases(closed, i) \subseteq {0}
                    /\ SumSeq(closed.output) = SumSeq(none)
                    /\ SumSeq(closed.output) = opVolume

\* C21 witness: an operate call on a Reservoir where a sound OutletAsset
\* that shares its formatted name with another outlet released water, its
\* release range has a minimum below the maximum, and the tuple returned
\* would differ with that outlet CLOSED
C21_Witness ==
    /\ opVolume > 0
    /\ \E i \in 1..Len(resOutlets) :
          /\ resOutlets[i].kind = "OutletAsset"
          /\ resOutlets[i].failure_state = "NONE"
          /\ \E j \in 1..Len(resOutlets) :
                j # i /\ resOutlets[j].name = resOutlets[i].name
          /\ \E k \in 1..Len(opTrace) :
                /\ opTrace[k][1] = i
                /\ opTrace[k][2] > 0
                /\ release_range(resOutlets[i], VolumeBefore(k)).min < opTrace[k][2]
          /\ operate(WithState(resOutlets, i, "CLOSED"), resCapacity, opVolume)
                # opOutput

====
